---- MODULE Spec2Model ----
(***************************************************************************)
(* Model of the WebLLM chat component (App): the engine initialisation     *)
(* effect, handleSend with its streamed consumption loop, and handleCancel.*)
(* Text values are sequences of tokens, so that concatenation, trim() and  *)
(* the "|| fallback" idiom are computed rather than assumed.               *)
(***************************************************************************)
EXTENDS Integers, Sequences, FiniteSets, TLC

\* ---------------------------------------------------------------- bounds
MaxSends == 3
MaxChunks == 2
MaxTranscript == 3

\* ------------------------------------------------------------- constants
Null == 0
Undefined == 0 - 1
SystemPrompt == <<"You are a helpful AI assistant.">>
InitialStatus == <<"Initializing model...">>
DefaultProgressText == <<"Loading model...">>
ChatUnavailable == <<"Chat API not available in this build.">>
InitFailedPrefix == "Initialization failed: "
ErrorPrefix == "Error: "
UnknownError == <<"Unknown error">>
Placeholder == <<" ">>
TypingSentinel == <<"Typing...">>

\* progress fractions are kept in thousandths: 1000 is report.progress === 1
One == 1000

\* ---------------------------------------------------------------- inputs
Inputs == {<<>>, <<" ">>, <<"Hello">>}
FewInputs == {<<>>, <<"Hello">>}
Pieces == {<<>>, <<"Hi">>, <<"!">>}
FewPieces == {<<>>, <<"Hi">>}
ReportTexts == {<<>>, <<"Fetching param cache">>}
ProgressValues == {Undefined, 500, 996, One}
Reports ==
  {r \in [text : ReportTexts, progress : ProgressValues] :
     r.text = <<>> => r.progress \in {Undefined, One}}
FinalReports == {[text |-> <<"Fetching param cache">>, progress |-> One]}
EngineKinds == {"full", "nochat"}
InitErrors == {<<"WebGPU unavailable">>}
StreamErrors == {<<"device lost">>}

VARIABLES engine, initStatus, modelLoaded, modelProgress, messages, input,
          loading, abortRef, disposed, initPc, aborted, gens, delivered

vars == <<engine, initStatus, modelLoaded, modelProgress, messages, input,
          loading, abortRef, disposed, initPc, aborted, gens, delivered>>

initVars == <<engine, initStatus, modelLoaded, modelProgress, delivered>>
chatVars == <<messages, input, loading, abortRef, aborted, gens>>

\* ------------------------------------------------------------ pure parts
IsSpace(tok) == tok = " "

RECURSIVE TrimLeft(_)
TrimLeft(s) == IF s # <<>> /\ IsSpace(Head(s)) THEN TrimLeft(Tail(s)) ELSE s

RECURSIVE TrimRight(_)
TrimRight(s) ==
  IF s # <<>> /\ IsSpace(s[Len(s)]) THEN TrimRight(SubSeq(s, 1, Len(s) - 1)) ELSE s

\* String.prototype.trim
Trim(s) == TrimRight(TrimLeft(s))

\* a || b on strings: the empty string is falsy
OrElse(a, b) == IF a = <<>> THEN b ELSE a

\* Math.round(report.progress * 100), progress given in thousandths
RoundPercent(p) == (p + 5) \div 10

Msg(r, c) == [role |-> r, content |-> c]

Last(s) == s[Len(s)]
ButLast(s) == SubSeq(s, 1, Len(s) - 1)

\* messages.filter(m => m.role !== 'assistant' || m.content.trim() !== 'Typing...')
NotTyping(m) == m.role # "assistant" \/ Trim(m.content) # TypingSentinel
FilterTyping(ms) == SelectSeq(ms, NotTyping)

\* [...messages.filter(...), userMsg]
CurrentMessages(ms, userMsg) == Append(FilterTyping(ms), userMsg)

ApplyChunkAppends(prev, assistantAccum) ==
  Append(prev, Msg("assistant", OrElse(assistantAccum, Placeholder)))

\* the updater passed to setMessages inside the for-await loop
ApplyChunk(prev, assistantAccum) ==
  IF Len(prev) > 0 /\ Last(prev).role = "assistant"
  THEN Append(ButLast(prev), Msg("assistant", assistantAccum))
  ELSE Append(prev, Msg("assistant", OrElse(assistantAccum, Placeholder)))

\* if (piece) assistantAccum += piece
Accumulate(assistantAccum, piece) ==
  IF piece # <<>> THEN assistantAccum \o piece ELSE assistantAccum

HasChatAssumed(eng) == eng # "null"

\* engine?.chat?.completions?.create
HasChat(eng) == eng = "full"

\* the progress report the engine delivered last, and whether the cleanup
\* had already run when it arrived
Delivery(report, late) == [report |-> report, late |-> late]
NoDelivery == Delivery([text |-> <<>>, progress |-> Undefined], FALSE)

\* ------------------------------------------------------------------ Init
Init ==
  /\ engine = "null"
  /\ initStatus = InitialStatus
  /\ modelLoaded = FALSE
  /\ modelProgress = 0
  /\ messages = <<Msg("system", SystemPrompt)>>
  /\ input = <<>>
  /\ loading = FALSE
  /\ abortRef = Null
  /\ disposed = FALSE
  /\ initPc = "start"
  /\ aborted = {}
  /\ gens = <<>>
  /\ delivered = NoDelivery

\* ------------------------------------------------ engine initialisation
\* useEffect body up to the await: CreateMLCEngine is called once
Mount ==
  /\ initPc = "start"
  /\ initPc' = "awaiting"
  /\ UNCHANGED <<initVars, chatVars, disposed>>

ProgressAppliesAlways(disp) == TRUE

\* if (disposed) return;
ProgressApplies(disp) == ~disp

ProgressLoadedRounded(report, loaded) ==
  IF report.progress # Undefined /\ RoundPercent(report.progress) = 100 THEN TRUE ELSE loaded

\* if (report.progress === 1) setModelLoaded(true)
ProgressLoaded(report, loaded) == IF report.progress = One THEN TRUE ELSE loaded

\* if (report.progress !== undefined) setModelProgress(Math.round(progress * 100))
ProgressPercent(report, percent) ==
  IF report.progress # Undefined THEN RoundPercent(report.progress) ELSE percent

initProgressCallback(report) ==
  /\ initPc = "awaiting"
  /\ IF ProgressApplies(disposed)
     THEN /\ initStatus' = OrElse(report.text, DefaultProgressText)
          /\ modelProgress' = ProgressPercent(report, modelProgress)
          /\ modelLoaded' = ProgressLoaded(report, modelLoaded)
     ELSE UNCHANGED <<initStatus, modelProgress, modelLoaded>>
  /\ delivered' = Delivery(report, disposed)
  /\ UNCHANGED <<engine, chatVars, disposed, initPc>>

\* the await resolves: if (disposed) return; setEngine(eng)
EngineCreated(kind) ==
  /\ initPc = "awaiting"
  /\ initPc' = "resolved"
  /\ engine' = IF disposed THEN engine ELSE kind
  /\ UNCHANGED <<initStatus, modelLoaded, modelProgress, delivered, chatVars, disposed>>

FailureStatusGeneric(message) == <<InitFailedPrefix>>

\* 'Initialization failed: ' + (e?.message || e)
FailureStatus(message) == <<InitFailedPrefix>> \o message

\* catch (e): setInitStatus('Initialization failed: ' + (e?.message || e))
EngineFailed(message) ==
  /\ initPc = "awaiting"
  /\ initPc' = "rejected"
  /\ initStatus' = FailureStatus(message)
  /\ UNCHANGED <<engine, modelLoaded, modelProgress, delivered, chatVars, disposed>>

AbortPreviousSkipped(ref, ab) == ab

\* abortRef.current?.abort() / if (abortRef.current) abortRef.current.abort()
AbortPrevious(ref, ab) == IF ref # Null THEN ab \cup {ref} ELSE ab

CleanupOnlyDisposes(ref, ab) == ab

\* if (abortRef.current) abortRef.current.abort()
CleanupSignals(ref, ab) == IF ref # Null THEN ab \cup {ref} ELSE ab

\* effect cleanup: disposed = true; if (abortRef.current) abortRef.current.abort()
Cleanup ==
  /\ initPc # "start"
  /\ ~disposed
  /\ disposed' = TRUE
  /\ aborted' = CleanupSignals(abortRef, aborted)
  /\ UNCHANGED <<initVars, messages, input, loading, abortRef, gens, initPc>>

\* --------------------------------------------------------- chat session
\* onChange={e => setInput(e.target.value)}
SetInput(text) ==
  /\ ~disposed
  /\ text # input
  /\ input' = text
  /\ UNCHANGED <<initVars, messages, loading, abortRef, aborted, gens, disposed, initPc>>

SendGuardIgnoresLoading(inp, eng, ld) == Trim(inp) # <<>> /\ eng # "null"

SendGuardUntrimmed(inp, eng, ld) == inp # <<>> /\ eng # "null" /\ ~ld

\* if (!input.trim() || !engine || loading) return;
SendGuard(inp, eng, ld) == Trim(inp) # <<>> /\ eng # "null" /\ ~ld

RequestSignalOmitted(controller) == Null

\* signal: controller.signal
RequestSignal(controller) == controller

AppendUserDropped(prev, userMsg) == prev

AppendUserToVisible(prev, userMsg) ==
  Append(SelectSeq(prev, LAMBDA m : m.role # "system"), userMsg)

AppendUserReplaces(prev, userMsg) == Append(ButLast(prev), userMsg)

\* setMessages(prev => [...prev, userMsg])
AppendUser(prev, userMsg) == Append(prev, userMsg)

NewGeneration(controller, ms, userMsg) ==
  [controller |-> controller,
   signal |-> RequestSignal(controller),
   pc |-> "creating",
   assistantAccum |-> <<>>,
   chunks |-> 0,
   received |-> <<>>,
   request |-> CurrentMessages(ms, userMsg)]

handleSend ==
  /\ ~disposed
  /\ IF ~SendGuard(input, engine, loading)
     THEN UNCHANGED <<initVars, chatVars, disposed, initPc>>
     ELSE IF ~HasChat(engine)
     THEN /\ Len(messages) < MaxTranscript
          /\ messages' = Append(messages, Msg("assistant", ChatUnavailable))
          /\ UNCHANGED <<initVars, input, loading, abortRef, aborted, gens,
                         disposed, initPc>>
     ELSE /\ Len(gens) < MaxSends
          /\ LET userMsg == Msg("user", input)
                 controller == Len(gens) + 1
             IN /\ input' = <<>>
                /\ loading' = TRUE
                /\ aborted' = AbortPrevious(abortRef, aborted)
                /\ abortRef' = controller
                /\ messages' = AppendUser(messages, userMsg)
                /\ gens' = Append(gens, NewGeneration(controller, messages, userMsg))
          /\ UNCHANGED <<initVars, disposed, initPc>>

CancelGuardMissing(ref) == TRUE

\* if (abortRef.current)
CancelGuard(ref) == ref # Null

handleCancel ==
  /\ ~disposed
  /\ IF CancelGuard(abortRef)
     THEN /\ aborted' = aborted \cup {abortRef}
          /\ abortRef' = Null
          /\ loading' = FALSE
          /\ UNCHANGED <<initVars, messages, input, gens, disposed, initPc>>
     ELSE UNCHANGED <<initVars, chatVars, disposed, initPc>>

\* ----------------------------------------- the awaits inside handleSend
Signalled(g) == gens[g].signal \in aborted
Running(g) == gens[g].pc \in {"creating", "streaming"}

\* chunks delivered so far over the first g streams
RECURSIVE ChunksSeen(_)
ChunksSeen(g) == IF g = 0 THEN 0 ELSE gens[g].chunks + ChunksSeen(g - 1)

SetGen(g, field, value) == [gens EXCEPT ![g] = [@ EXCEPT ![field] = value]]

\* await engine.chat.completions.create(...) resolves; let assistantAccum = ''
StreamOpened(g) ==
  /\ gens[g].pc = "creating"
  /\ ~Signalled(g)
  /\ gens' = [gens EXCEPT ![g] = [@ EXCEPT !.pc = "streaming", !.assistantAccum = <<>>]]
  /\ UNCHANGED <<initVars, messages, input, loading, abortRef, aborted, disposed, initPc>>

\* one iteration of for await (const chunk of stream)
StreamChunk(g, piece) ==
  /\ gens[g].pc = "streaming"
  /\ ~Signalled(g)
  /\ ChunksSeen(Len(gens)) < MaxChunks
  /\ LET accum == Accumulate(gens[g].assistantAccum, piece)
     IN /\ gens' = [gens EXCEPT ![g] = [@ EXCEPT !.assistantAccum = accum,
                                                 !.chunks = @ + 1,
                                                 !.received = Append(@, piece)]]
        /\ messages' = ApplyChunk(messages, accum)
  /\ UNCHANGED <<initVars, input, loading, abortRef, aborted, disposed, initPc>>

\* the stream is exhausted: the loop exits, finally { setLoading(false) }
StreamEnd(g) ==
  /\ gens[g].pc = "streaming"
  /\ ~Signalled(g)
  /\ gens' = SetGen(g, "pc", "done")
  /\ loading' = FALSE
  /\ UNCHANGED <<initVars, messages, input, abortRef, aborted, disposed, initPc>>

AbortError == [name |-> "AbortError", message |-> <<"The operation was aborted.">>]
OtherError(message) == [name |-> "Error", message |-> message]

CatchSwallows(prev, err) == prev

CatchReportsAbort(prev, err) ==
  Append(prev, Msg("assistant", <<ErrorPrefix>> \o OrElse(err.message, UnknownError)))

\* catch (err) { if (err.name === 'AbortError') ... else setMessages(...) }
Catch(prev, err) ==
  IF err.name = "AbortError"
  THEN prev
  ELSE Append(prev, Msg("assistant", <<ErrorPrefix>> \o OrElse(err.message, UnknownError)))

\* the signalled request rejects with AbortError at its pending await
StreamAborted(g) ==
  /\ Running(g)
  /\ Signalled(g)
  /\ gens' = SetGen(g, "pc", "done")
  /\ messages' = Catch(messages, AbortError)
  /\ loading' = FALSE
  /\ UNCHANGED <<initVars, input, abortRef, aborted, disposed, initPc>>

\* create() or the iteration throws something else
StreamFailed(g, message) ==
  /\ Running(g)
  /\ ~Signalled(g)
  /\ gens' = SetGen(g, "pc", "failed")
  /\ messages' = Catch(messages, OtherError(message))
  /\ loading' = FALSE
  /\ UNCHANGED <<initVars, input, abortRef, aborted, disposed, initPc>>

Gens == 1..Len(gens)

\* the whole component, with two user texts and two stream pieces
Next ==
  \/ Mount
  \/ \E report \in FinalReports : initProgressCallback(report)
  \/ \E kind \in EngineKinds : EngineCreated(kind)
  \/ \E message \in InitErrors : EngineFailed(message)
  \/ Cleanup
  \/ \E text \in FewInputs : SetInput(text)
  \/ handleSend
  \/ handleCancel
  \/ \E g \in Gens : StreamOpened(g)
  \/ \E g \in Gens, piece \in FewPieces : StreamChunk(g, piece)
  \/ \E g \in Gens : StreamEnd(g)
  \/ \E g \in Gens : StreamAborted(g)
  \/ \E g \in Gens, message \in StreamErrors : StreamFailed(g, message)

Spec == Init /\ [][Next]_vars

\* the component with every progress report the engine may deliver and every
\* user text, and a single stream piece
NextInit ==
  \/ Mount
  \/ \E report \in Reports : initProgressCallback(report)
  \/ \E kind \in EngineKinds : EngineCreated(kind)
  \/ \E message \in InitErrors : EngineFailed(message)
  \/ Cleanup
  \/ \E text \in Inputs : SetInput(text)
  \/ handleSend
  \/ handleCancel
  \/ \E g \in Gens : StreamOpened(g)
  \/ \E g \in Gens : StreamChunk(g, <<"Hi">>)
  \/ \E g \in Gens : StreamEnd(g)
  \/ \E g \in Gens : StreamAborted(g)
  \/ \E g \in Gens, message \in StreamErrors : StreamFailed(g, message)

SpecInit == Init /\ [][NextInit]_vars

\* the mounted component with every stream piece and one user text
NextStream ==
  \/ Mount
  \/ \E report \in FinalReports : initProgressCallback(report)
  \/ EngineCreated("full")
  \/ SetInput(<<"Hello">>)
  \/ handleSend
  \/ handleCancel
  \/ \E g \in Gens : StreamOpened(g)
  \/ \E g \in Gens, piece \in Pieces : StreamChunk(g, piece)
  \/ \E g \in Gens : StreamEnd(g)
  \/ \E g \in Gens : StreamAborted(g)
  \/ \E g \in Gens, message \in StreamErrors : StreamFailed(g, message)

SpecStream == Init /\ [][NextStream]_vars

\* ------------------------------------------------------------ properties
Live(g) == Running(g) /\ gens[g].controller \notin aborted
SendAccepted == Len(gens') = Len(gens) + 1
SendStarts == handleSend /\ SendAccepted
SendAnswers == handleSend /\ messages' # messages
\* the step is a run of the progress callback
ProgressCalled == initPc = "awaiting" /\ UNCHANGED <<engine, chatVars, disposed, initPc>>
UserAppended == Len(messages') = Len(messages) + 1 /\ Last(messages').role = "user"

RECURSIVE Concat(_)
Concat(pieces) == IF pieces = <<>> THEN <<>> ELSE Head(pieces) \o Concat(Tail(pieces))

\* C1 (as stated): while a generation is in progress (loading true, a live
\* stream, engine with chat) a non-blank send is accepted and starts a stream.
C1_SendWhileGeneratingStarts ==
  (/\ loading /\ ~disposed
   /\ \E g \in Gens : Live(g)
   /\ Trim(input) # <<>> /\ HasChat(engine)
   /\ Len(gens) < MaxSends) => ENABLED SendStarts

\* C1 (amended): while the loading flag is true no send is accepted: no stream
\* is started and no user message is appended.  A send is accepted only while
\* loading is false, and then every stream still running is signalled through
\* abortRef and the new stream starts with an empty accumulator and no chunk.
C1_SendRejectedWhileLoading ==
  [][/\ loading => (~SendAccepted /\ ~UserAppended)
     /\ SendAccepted =>
          /\ ~loading
          /\ \A g \in Gens : Running(g) => gens[g].controller \in aborted'
          /\ Last(gens').assistantAccum = <<>>
          /\ Last(gens').chunks = 0
          /\ Last(gens').pc = "creating"]_vars

C1_Witness ==
  /\ loading /\ ~disposed
  /\ Trim(input) # <<>>
  /\ HasChat(engine)
  /\ Len(gens) < MaxSends
  /\ \E g \in Gens : Live(g) /\ gens[g].pc = "streaming" /\ gens[g].chunks > 0

C3_CancelIsClean ==
  [][/\ (abortRef # Null /\ abortRef' = Null) => (~loading' /\ messages' = messages)
     /\ \A g \in Gens :
          (Running(g) /\ gens[g].controller \in aborted /\ gens'[g].pc = "done")
            => messages' = messages]_vars

C3_Witness ==
  /\ ~disposed
  /\ Len(gens) = 1
  /\ gens[1].pc = "done"
  /\ 1 \in aborted
  /\ gens[1].chunks > 0
  /\ ~loading
  /\ Last(messages) = Msg("assistant", gens[1].assistantAccum)

\* the transcript ends with the user message that started g and one assistant
\* message holding content
Bubble(g, content) ==
  /\ Len(messages) >= 3
  /\ Last(messages) = Msg("assistant", content)
  /\ messages[Len(messages) - 1] = Last(gens[g].request)
  /\ messages[Len(messages) - 1].role = "user"

\* C4 (as stated): while a generation is live and has consumed a chunk, the
\* transcript ends with its user message followed by exactly one assistant
\* message whose content is the concatenation of all pieces received so far.
C4_BubbleIsConcatenation ==
  \A g \in Gens :
    (Live(g) /\ gens[g].chunks > 0) => Bubble(g, Concat(gens[g].received))

\* the content the stream loop shows: a single space stands for the empty
\* text while the only piece received is an empty one
Shown(received) ==
  IF Len(received) = 1 /\ Concat(received) = <<>> THEN Placeholder ELSE Concat(received)

\* C4 (amended): as stated, except that the content is a single space while
\* the only piece received so far is an empty one.
C4_BubbleIsShownConcatenation ==
  \A g \in Gens :
    (Live(g) /\ gens[g].chunks > 0) => Bubble(g, Shown(gens[g].received))

C4_Witness ==
  \E g \in Gens :
    /\ Live(g)
    /\ gens[g].received = <<<<"Hi">>, <<"!">>>>
    /\ Last(messages) = Msg("assistant", <<"Hi", "!">>)

\* C5: with a chat-capable engine, loading false and a non-blank input a send
\* is accepted; an accepted send appends exactly the one user message carrying
\* the input, and the request it issues already ends with that message.
C5_UserMessageBeforeRequest ==
  /\ []((/\ ~loading /\ ~disposed /\ HasChat(engine)
         /\ Trim(input) # <<>> /\ Len(gens) < MaxSends) => ENABLED SendStarts)
  /\ [][SendAccepted =>
          /\ messages' = Append(messages, Msg("user", input))
          /\ Last(Last(gens').request) = Msg("user", input)
          /\ Last(gens').pc = "creating"]_vars

C5_Witness ==
  /\ Len(gens) = 1
  /\ gens[1].pc = "creating"
  /\ messages = <<Msg("system", SystemPrompt), Msg("user", <<"Hello">>)>>
  /\ gens[1].request = messages

\* C6: with an engine that lacks the chat capability, a non-blank send is
\* answered, and every step that touches the chat state other than the input
\* appends exactly one assistant message saying the chat API is unavailable
\* and changes nothing else: no request, no user message, loading stays false.
C6_CapabilityMissing ==
  /\ []((/\ engine = "nochat" /\ ~disposed /\ Trim(input) # <<>>
         /\ Len(messages) < MaxTranscript) => ENABLED SendAnswers)
  /\ [](engine = "nochat" => ~loading)
  /\ [][(engine = "nochat" /\ <<messages, gens, loading, abortRef, aborted>>'
                               # <<messages, gens, loading, abortRef, aborted>>) =>
          /\ Trim(input) # <<>>
          /\ messages' = Append(messages, Msg("assistant", ChatUnavailable))
          /\ UNCHANGED <<gens, input, loading, abortRef, aborted>>]_vars

C6_Witness ==
  /\ engine = "nochat"
  /\ messages = <<Msg("system", SystemPrompt), Msg("assistant", ChatUnavailable),
                  Msg("assistant", ChatUnavailable)>>
  /\ gens = <<>>
  /\ ~loading

\* C7: at most one generation is live (not terminated, controller not signalled).
C7_SingleFlight == Cardinality({g \in Gens : Live(g)}) <= 1

C7_Witness ==
  /\ ~disposed
  /\ Len(gens) = 3
  /\ gens[1].pc = "done"
  /\ gens[2].pc = "streaming" /\ 2 \in aborted
  /\ gens[3].pc = "creating" /\ Live(3)

\* C8: modelLoaded starts false, turns true only in a progress callback whose
\* report has progress = 1, does turn true in such a callback while the
\* component is mounted, and no step sets it back to false.
C8_ReadyOnceAtOne ==
  /\ ~modelLoaded
  /\ [][/\ modelLoaded => modelLoaded'
        /\ (~modelLoaded /\ modelLoaded') =>
              (ProgressCalled /\ delivered'.report.progress = One)
        /\ (ProgressCalled /\ delivered'.report.progress = One /\ ~disposed)
              => modelLoaded']_vars

C8_Witness ==
  /\ modelLoaded
  /\ delivered.report.progress = 500
  /\ modelProgress = 50
  /\ loading

InitFailed == Head(initStatus) = InitFailedPrefix

\* C9 (as stated): the ready flag and a failure status never hold together,
\* and once either is reached neither changes again.
C9_ReadyOrFailed ==
  /\ [](~(modelLoaded /\ InitFailed))
  /\ [][(modelLoaded \/ InitFailed) =>
          (modelLoaded' = modelLoaded /\ InitFailed' = InitFailed)]_vars

\* C10: a progress callback delivered after the cleanup changes none of
\* initStatus, modelLoaded and modelProgress.
C10_LateProgressIsNoOp ==
  [][(ProgressCalled /\ disposed) => UNCHANGED <<initStatus, modelLoaded, modelProgress>>]_vars

C10_Witness ==
  /\ disposed
  /\ delivered = Delivery([text |-> <<"Fetching param cache">>, progress |-> One], TRUE)
  /\ ~modelLoaded
  /\ initStatus = InitialStatus

\* C11: CreateMLCEngine is called once, from the start position only, and
\* the initialisation never leaves a terminal position; when it fails the
\* status is the failure prefix followed by the error message, the engine
\* stays null, and both stay so (no retry).
C11_AcquiredOnceFailStop ==
  /\ [](initPc = "rejected" =>
          (engine = "null" /\ \E m \in InitErrors : initStatus = <<InitFailedPrefix>> \o m))
  /\ [][/\ (initPc' = "awaiting" /\ initPc # "awaiting") => initPc = "start"
        /\ initPc # "start" => initPc' # "start"
        /\ initPc \in {"resolved", "rejected"} => initPc' = initPc]_vars

C11_Witness ==
  /\ initPc = "rejected"
  /\ initStatus = <<InitFailedPrefix, "WebGPU unavailable">>
  /\ engine = "null"
  /\ ~disposed
  /\ delivered.report.progress = 500

ErrorMessage(m) == Msg("assistant", <<ErrorPrefix>> \o OrElse(m, UnknownError))

\* C12: when a generation fails for a reason other than cancellation, at
\* create() or at a chunk, exactly one assistant message "Error: ..." is
\* appended and loading becomes false; afterwards a non-blank send is accepted.
C12_FailureReported ==
  /\ []((/\ \E g \in Gens : gens[g].pc = "failed"
         /\ ~loading /\ ~disposed /\ HasChat(engine)
         /\ Trim(input) # <<>> /\ Len(gens) < MaxSends) => ENABLED SendStarts)
  /\ [][\A g \in Gens : (gens[g].pc # "failed" /\ gens'[g].pc = "failed") =>
          /\ \E m \in StreamErrors : messages' = Append(messages, ErrorMessage(m))
          /\ ~loading']_vars

C12_Witness ==
  /\ Len(gens) = 2
  /\ gens[1].pc = "failed" /\ gens[1].chunks > 0
  /\ gens[2].pc = "creating" /\ Live(2)
  /\ Len(messages) = 5
  /\ messages[4] = ErrorMessage(<<"device lost">>)
  /\ messages[5].role = "user"

NoneActive == \A g \in Gens : ~Live(g)

\* C13 (as stated): with no active generation handleCancel changes none of
\* the transcript, the loading flag and abortRef.
C13_CancelWithoutActiveIsNoOp ==
  NoneActive =>
    ~ENABLED (handleCancel /\ <<messages, loading, abortRef>>' # <<messages, loading, abortRef>>)

\* C13 (amended): with abortRef empty handleCancel changes nothing at all; with
\* no active generation and the controller of a finished generation still in
\* abortRef, it clears abortRef and leaves the transcript, the loading flag,
\* the input and the generations as they are.
C13_CancelWithoutActiveKeepsTranscript ==
  /\ [](abortRef = Null => ~ENABLED (handleCancel /\ vars' # vars))
  /\ [][(NoneActive /\ abortRef # Null /\ abortRef' = Null) =>
          UNCHANGED <<messages, loading, input, gens>>]_vars

C13_Witness ==
  /\ Len(gens) = 1
  /\ gens[1].pc = "failed"
  /\ abortRef = Null
  /\ 1 \in aborted
  /\ ~loading /\ ~disposed

\* C14: the transcript starts with the system message and holds no other
\* system message.
C14_OneLeadingSystemMessage ==
  /\ Len(messages) >= 1
  /\ messages[1] = Msg("system", SystemPrompt)
  /\ \A i \in 2..Len(messages) : messages[i].role # "system"

C14_Witness ==
  /\ Len(gens) = 3
  /\ Len(messages) >= 6
  /\ \E i \in 2..Len(messages) : messages[i] = ErrorMessage(<<"device lost">>)

\* C15: with a blank input (empty or only white space) or without an engine,
\* handleSend changes nothing: transcript, input, loading, abortRef, signals
\* and generations all stay, so no request is issued.
C15_BlankOrNotReadyIsNoOp ==
  (Trim(input) = <<>> \/ engine = "null") => ~ENABLED (handleSend /\ vars' # vars)

C15_Witness ==
  /\ input = <<" ">>
  /\ engine = "full"
  /\ modelLoaded
  /\ ~loading /\ ~disposed
  /\ Len(gens) = 1

\* C16 (as stated): while a generation is live and every piece it received so
\* far is empty (one empty delta or several), the transcript ends with its
\* user message followed by one assistant message holding a single space.
C16_PlaceholderKeepsBubble ==
  \A g \in Gens :
    (Live(g) /\ gens[g].chunks > 0 /\ Concat(gens[g].received) = <<>>)
      => Bubble(g, Placeholder)

\* C17 (as stated): while the component is mounted, loading is true exactly
\* when some generation is live (running and its controller not signalled).
C17_LoadingIffLive ==
  ~disposed => (loading <=> \E g \in Gens : Live(g))

\* a generation whose stream is exhausted in this step
NaturalEnd(g) == gens[g].pc = "streaming" /\ ~Signalled(g) /\ gens'[g].pc = "done"
Streaming == \E g \in Gens : Live(g) /\ gens[g].pc = "streaming"

C19_NoInitWriteAfterTeardown ==
  [][disposed => UNCHANGED <<engine, initStatus, modelLoaded>>]_vars

\* C20: the cleanup signals the controller of every generation still running,
\* and once the component is disposed no generation is live.
C20_TeardownSignalsGeneration ==
  /\ [](disposed => \A g \in Gens : ~Live(g))
  /\ [][(~disposed /\ disposed') =>
          \A g \in Gens : Running(g) => gens[g].signal \in aborted']_vars

C20_Witness ==
  /\ disposed
  /\ Len(gens) = 1
  /\ gens[1].pc = "streaming" /\ gens[1].chunks > 0
  /\ abortRef = 1
  /\ 1 \in aborted
  /\ loading

TypeOK ==
  /\ engine \in {"null"} \cup EngineKinds
  /\ modelLoaded \in BOOLEAN
  /\ loading \in BOOLEAN
  /\ disposed \in BOOLEAN
  /\ abortRef \in 0..MaxSends
  /\ aborted \subseteq 1..MaxSends
  /\ Len(gens) <= MaxSends

====
